---------------------------- MODULE Spec2Model ----------------------------
(***************************************************************************)
(* A model of src/src/index.ts: the ObjectDetection pipeline (load,        *)
(* detect, setModelParameters, getModelParameters, getFPS, dispose) and    *)
(* its helpers getValidResolution, calculateMaxScores and                  *)
(* buildDetectedObjects.                                                   *)
(*                                                                         *)
(* Number representation.  JavaScript numbers that are not integers are    *)
(* kept as integers in a fixed unit:                                       *)
(*   - imageScaleFactor and the resolutions computed from it are counted   *)
(*     in units of 1/ScaleDen (0.7 is 7 with ScaleDen = 10);               *)
(*   - scores and thresholds are counted in units of 1/200 (0.99 is 198,   *)
(*     0.5 is 100, 1.0 is 200).  Number.MIN_VALUE, the least positive      *)
(*     double (5e-324), lies strictly between 0 and every positive score   *)
(*     a Float32Array can hold; only that order is used, and it is the     *)
(*     order of 1 among the even score values of the model;                *)
(*   - normalized box coordinates are counted in tenths, so a pixel        *)
(*     coordinate (coordinate * width) is counted in tenths of a pixel.    *)
(* Arrays are sequences; At(a, i) reads the element at JavaScript index i. *)
(***************************************************************************)
EXTENDS Integers, Sequences, FiniteSets, TLC

VARIABLES
  model,        \* this.model: "undefined", "loaded", or "disposed" (handle kept, resources released)
  loadPc,       \* position of load(): "idle", "acquire", "warmup", "done", "exited"
  fps,          \* this.fps: [kind |-> "undefined" | "number" | "Infinity", val |-> n]
  modelParams,  \* this.modelParams: a function from option names to values
  backend,      \* the engine's active backend (tfnode.getBackend())
  liveTensors,  \* tensors allocated by the pipeline and not yet disposed
  calls,        \* the detect calls: per call slot, its position, locals and result
  lastSuccess   \* history: elapsed time of the detect call that last returned predictions

vars == <<model, loadPc, fps, modelParams, backend, liveTensors, calls, lastSuccess>>

----------------------------------------------------------------------------
(* Bounds of the model *)

MaxLive == 3       \* detect is not issued once this many tensors are live
MaxElapsed == 2    \* timeEnd - timeBegin ranges over 0..MaxElapsed
MaxBoxes == 2      \* numBoxes of an inference output ranges over 0..MaxBoxes
MaxDim == 6        \* frame sizes of the resolution specification range over 1..MaxDim
MaxStride == 3     \* outputStride of the resolution specification ranges over 1..MaxStride
MaxPartialKeys == 2 \* keys of one argument of the parameter specification
ScaleDen == 10     \* imageScaleFactor is n / ScaleDen, n in 1..ScaleDen

\* The detect calls of one caller, which awaits each call before the next.
CallIds == {1}

----------------------------------------------------------------------------
(* Program constants *)

MIN_VALUE == 1                  \* Number.MIN_VALUE, see the representation note
DefaultOutputStride == 16
DefaultImageScaleFactor == 7    \* 0.7
DefaultMaxNumBoxes == 20
DefaultIouThreshold == 100      \* 0.5
DefaultScoreThreshold == 198    \* 0.99

defaultParams ==
  [flipHorizontal |-> TRUE,
   outputStride |-> DefaultOutputStride,
   imageScaleFactor |-> DefaultImageScaleFactor,
   maxNumBoxes |-> DefaultMaxNumBoxes,
   iouThreshold |-> DefaultIouThreshold,
   scoreThreshold |-> DefaultScoreThreshold,
   modelType |-> "MobilenetV2"]

----------------------------------------------------------------------------
(* JavaScript helpers *)

At(a, i) == a[i + 1]

Min(a, b) == IF a < b THEN a ELSE b

\* The % of JavaScript: the remainder has the sign of the dividend.
JsRem(a, b) == IF a >= 0 THEN a % b ELSE -((-a) % b)

\* Math.round(1000 / elapsed): Infinity when elapsed is 0, else round half up.
RoundFps(elapsed) ==
  IF elapsed = 0 THEN [kind |-> "Infinity", val |-> 0]
  ELSE [kind |-> "number", val |-> (2000 + elapsed) \div (2 * elapsed)]

\* One source of Object.assign copied onto the target: every own key of the
\* source is written, every other key of the target is kept.
AssignOne(target, source) ==
  [k \in (DOMAIN target) \cup (DOMAIN source) |->
     IF k \in DOMAIN source THEN source[k] ELSE target[k]]

\* Object.assign({}, b, a): the sources in the wrong order.
ObjectAssignReversed(a, b) == AssignOne(AssignOne(<<>>, b), a)

\* Object.assign({}, a, b)
ObjectAssign(a, b) == AssignOne(AssignOne(<<>>, a), b)


----------------------------------------------------------------------------
(* Pure functions *)

\* getValidResolution, on numbers counted in units of 1/ScaleDen: the scale
\* factor comes in as a numerator, the dimension and the stride as integers,
\* and the result is a numerator over ScaleDen.
getValidResolutionNoPlusOne(imageScaleFactor, inputDimension, outputStride) ==
  LET evenResolution == inputDimension * imageScaleFactor - ScaleDen
  IN  evenResolution - JsRem(evenResolution, outputStride * ScaleDen)

getValidResolution(imageScaleFactor, inputDimension, outputStride) ==
  LET evenResolution == inputDimension * imageScaleFactor - ScaleDen
  IN  evenResolution - JsRem(evenResolution, outputStride * ScaleDen) + ScaleDen

\* getInputTensorDimensions: [height, width] of the input.
getInputTensorDimensions(input) == <<input.height, input.width>>

\* The inner loop of calculateMaxScores for box i, from class j on.
RECURSIVE ScanClasses(_, _, _, _, _, _)
ScanClasses(scores, i, numClasses, j, max, index) ==
  IF j >= numClasses
  THEN [max |-> max, index |-> index]
  ELSE IF At(scores, i * numClasses + j) > max
       THEN ScanClasses(scores, i, numClasses, j + 1,
                        At(scores, i * numClasses + j), j)
       ELSE ScanClasses(scores, i, numClasses, j + 1, max, index)

\* calculateMaxScores: [maxes, classes]
calculateMaxScores(scores, numBoxes, numClasses) ==
  [maxes   |-> [b \in 1..numBoxes |->
                  ScanClasses(scores, b - 1, numClasses, 0, MIN_VALUE, -1).max],
   classes |-> [b \in 1..numBoxes |->
                  ScanClasses(scores, b - 1, numClasses, 0, MIN_VALUE, -1).index]]

\* buildDetectedObjects reading a box as [minX, minY, maxX, maxY].
buildDetectedObjectsXY(width, height, boxes, scores, indexes, classes) ==
  [i \in 1..Len(indexes) |->
     LET minX == At(boxes, indexes[i] * 4 + 0) * width
         minY == At(boxes, indexes[i] * 4 + 1) * height
         maxX == At(boxes, indexes[i] * 4 + 2) * width
         maxY == At(boxes, indexes[i] * 4 + 3) * height
     IN  [bbox  |-> <<minX, minY, maxX - minX, maxY - minY>>,
          class |-> At(classes, indexes[i]),
          score |-> At(scores, indexes[i])]]

\* buildDetectedObjects: one object per entry of indexes, in their order.
buildDetectedObjects(width, height, boxes, scores, indexes, classes) ==
  [i \in 1..Len(indexes) |->
     LET minY == At(boxes, indexes[i] * 4 + 0) * height
         minX == At(boxes, indexes[i] * 4 + 1) * width
         maxY == At(boxes, indexes[i] * 4 + 2) * height
         maxX == At(boxes, indexes[i] * 4 + 3) * width
     IN  [bbox  |-> <<minX, minY, maxX - minX, maxY - minY>>,
          class |-> At(classes, indexes[i]),
          score |-> At(scores, indexes[i])]]

\* tfnode.image.nonMaxSuppression as called by detect: the engine's
\* operation, not code of this module.  It is given the boxes [numBoxes, 4]
\* and the flat score buffer, so the score it reads for box k is scores[k].
\* It either throws or returns an ordered selection of distinct box indexes,
\* at most maxNumBoxes of them, none with a score below scoreThreshold.
\* Which of them, and in which order, is the engine's choice.
nonMaxSuppression(numBoxes, scores, maxNumBoxes, scoreThreshold) ==
  LET candidates == {k \in 0..(numBoxes - 1) : At(scores, k) >= scoreThreshold}
      lengths == 0..Min(Min(maxNumBoxes, numBoxes), Cardinality(candidates))
  IN  {s \in UNION {[1..n -> candidates] : n \in lengths} :
         \A a, b \in DOMAIN s : a # b => s[a] # s[b]}

----------------------------------------------------------------------------
(* Inputs *)

\* Frames handed to detect: {height, width}.
Frames == {[height |-> 480, width |-> 640]}

\* Score values (0 and 1.0) and boxes [minY, minX, maxY, maxX] in tenths.
ScoreValues == {0, 200}
BoxValues == {<<1, 2, 6, 7>>, <<0, 0, 10, 10>>}

RECURSIVE Flatten(_)
Flatten(rows) == IF rows = <<>> THEN <<>> ELSE Head(rows) \o Flatten(Tail(rows))

\* What model.executeAsync may resolve to: a score tensor of shape
\* (1, numBoxes, numClasses) and a box tensor of shape (1, numBoxes, 1, 4),
\* each with its flat data.
Outputs(maxBoxes, classCounts) ==
  UNION {
    {[numBoxes |-> nb, numClasses |-> nc, scores |-> sc, boxes |-> Flatten(bx)] :
       sc \in [1..(nb * nc) -> ScoreValues], bx \in [1..nb -> BoxValues]} :
    nb \in 0..maxBoxes, nc \in classCounts}

\* The outputs of the data-path specification, of a one-class (hand) or a
\* two-class network, and the one-class outputs of at most one box that the
\* pipeline specification runs on.
RawOutputs == Outputs(MaxBoxes, {1, 2})
SmallOutputs == Outputs(1, {1})

Elapsed == 0..MaxElapsed

\* The arguments of setModelParameters in the pipeline specification.
Partials ==
  {[flipHorizontal |-> b] : b \in BOOLEAN}
  \cup {[maxNumBoxes |-> n] : n \in {1, DefaultMaxNumBoxes}}
  \cup {[scoreThreshold |-> t] : t \in {DefaultIouThreshold, DefaultScoreThreshold}}

\* The arguments of setModelParameters in the data-path specification.
FlipPartials == {[flipHorizontal |-> b] : b \in BOOLEAN}

\* The arguments of load(params) and setModelParameters(params) in the
\* parameter specification: every object of at most MaxPartialKeys of the keys
\* ParamKeys, each key with its default value or another one, "extra" being
\* a key that ModelParameters does not name.  The options outputStride,
\* imageScaleFactor and iouThreshold are in no argument.
FullParams ==
  [flipHorizontal : BOOLEAN,
   maxNumBoxes : {1, 5, DefaultMaxNumBoxes},
   scoreThreshold : {0, 160, DefaultScoreThreshold},
   modelType : {"MobilenetV1", "MobilenetV2"},
   extra : {1, 2}]

ParamKeys == {"flipHorizontal", "maxNumBoxes", "scoreThreshold", "modelType", "extra"}

AllPartials ==
  {[k \in keys |-> full[k]] :
     full \in FullParams,
     keys \in {ks \in SUBSET ParamKeys : Cardinality(ks) <= MaxPartialKeys}}

\* The frames and the parameters of the resolution specification.
ResFrames == {[height |-> h, width |-> w] : h, w \in 1..MaxDim}
ResParams ==
  {[imageScaleFactor |-> n, outputStride |-> st] : n \in 1..ScaleDen, st \in 1..MaxStride}

----------------------------------------------------------------------------
(* State *)

NoInput == [height |-> 0, width |-> 0]
NoOutput == [numBoxes |-> 0, numClasses |-> 0, scores |-> <<>>, boxes |-> <<>>]
NoNmsArgs == [maxNumBoxes |-> 0, iouThreshold |-> 0, scoreThreshold |-> 0]

\* A call slot before its first detect call.
IdleCall ==
  [pc |-> "idle", error |-> "none",
   input |-> NoInput, resizedHeight |-> 0, resizedWidth |-> 0, flipped |-> FALSE,
   tensors |-> {},
   issuedParams |-> defaultParams, issuedModel |-> "undefined", issuedLoadPc |-> "idle",
   output |-> NoOutput, maxScores |-> <<>>, classes |-> <<>>,
   nmsArgs |-> NoNmsArgs, indexes |-> <<>>, predictions |-> <<>>]

\* new ObjectDetection(modelParams), as the load(params) factory builds it.
Constructed(params) ==
  /\ model = "undefined"
  /\ loadPc = "idle"
  /\ fps = [kind |-> "undefined", val |-> 0]
  /\ modelParams = ObjectAssign(defaultParams, params)
  /\ backend = "tensorflow"
  /\ liveTensors = 0
  /\ calls = [c \in CallIds |-> IdleCall]
  /\ lastSuccess = [some |-> FALSE, elapsed |-> 0]

Init == Constructed(<<>>)

\* The pipeline that await load(params) returns: constructed, then load()
\* run to its end (Load, LoadAcquired, LoadWarmedUp).
Ready(params) ==
  /\ model = "loaded"
  /\ loadPc = "done"
  /\ fps = [kind |-> "number", val |-> 0]
  /\ modelParams = ObjectAssign(defaultParams, params)
  /\ backend = "tensorflow"
  /\ liveTensors = 1
  /\ calls = [c \in CallIds |-> IdleCall]
  /\ lastSuccess = [some |-> FALSE, elapsed |-> 0]

Running == loadPc # "exited"

----------------------------------------------------------------------------
(* load *)

\* load(), up to its first await: this.fps = 0 and loadGraphModel is started.
Load ==
  /\ loadPc = "idle"
  /\ fps' = [kind |-> "number", val |-> 0]
  /\ loadPc' = "acquire"
  /\ UNCHANGED <<model, modelParams, backend, liveTensors, calls, lastSuccess>>

\* loadGraphModel resolves: this.model is set and the warm-up inference is
\* started on a zero tensor, which load never disposes.
LoadAcquired ==
  /\ loadPc = "acquire"
  /\ model' = "loaded"
  /\ liveTensors' = liveTensors + 1
  /\ loadPc' = "warmup"
  /\ UNCHANGED <<fps, modelParams, backend, calls, lastSuccess>>

\* The warm-up resolves: its result tensors are read and disposed.
LoadWarmedUp ==
  /\ loadPc = "warmup"
  /\ loadPc' = "done"
  /\ UNCHANGED <<model, fps, modelParams, backend, liveTensors, calls, lastSuccess>>

\* loadGraphModel or the warm-up rejects: console.error and process.exit(1).
LoadFailed ==
  /\ loadPc \in {"acquire", "warmup"}
  /\ loadPc' = "exited"
  /\ UNCHANGED <<model, fps, modelParams, backend, liveTensors, calls, lastSuccess>>

----------------------------------------------------------------------------
(* detect *)

\* detect(input), up to the inference boundary: the resolution is computed,
\* the batched tensor is built, and model.executeAsync is called.  With
\* this.model undefined that call throws a TypeError and the promise that
\* detect returns is rejected; batched stays allocated.
Detect(c, input) ==
  /\ Running
  /\ calls[c].pc # "suspended"
  /\ liveTensors < MaxLive
  /\ LET dims == getInputTensorDimensions(input)
         height == dims[1]
         width == dims[2]
         issued ==
           [IdleCall EXCEPT
              !.input = input,
              !.resizedHeight = getValidResolution(modelParams.imageScaleFactor,
                                                   height, modelParams.outputStride),
              !.resizedWidth = getValidResolution(modelParams.imageScaleFactor,
                                                  width, modelParams.outputStride),
              !.flipped = modelParams.flipHorizontal,
              !.tensors = {"batched"},
              !.issuedParams = modelParams,
              !.issuedModel = model,
              !.issuedLoadPc = loadPc]
     IN  /\ liveTensors' = liveTensors + 1
         /\ calls' = [calls EXCEPT ![c] =
              IF model = "undefined"
              THEN [issued EXCEPT !.pc = "failed", !.error = "TypeError"]
              ELSE [issued EXCEPT !.pc = "suspended"]]
  /\ UNCHANGED <<model, loadPc, fps, modelParams, backend, lastSuccess>>

\* model.executeAsync rejects: the then-callback never runs, so nothing is
\* disposed and the rejection reaches the caller.
InferenceRejected(c) ==
  /\ Running
  /\ calls[c].pc = "suspended"
  /\ calls' = [calls EXCEPT ![c].pc = "failed", ![c].error = "InferenceError"]
  /\ UNCHANGED <<model, loadPc, fps, modelParams, backend, liveTensors, lastSuccess>>

\* model.executeAsync resolves with out: the then-callback, which runs to its
\* end without suspending.  elapsed is timeEnd - timeBegin.
InferenceResolved(c, out, elapsed) ==
  /\ Running
  /\ calls[c].pc = "suspended"
  /\ LET scores == out.scores
         boxes == out.boxes
         reduced == calculateMaxScores(scores, out.numBoxes, out.numClasses)
         prevBackend == backend
         nmsArgs == [maxNumBoxes |-> modelParams.maxNumBoxes,
                     iouThreshold |-> modelParams.iouThreshold,
                     scoreThreshold |-> modelParams.scoreThreshold]
         \* batched.dispose() and tfnode.dispose(result)
         extracted == [calls[c] EXCEPT
                         !.tensors = {},
                         !.output = out,
                         !.maxScores = reduced.maxes,
                         !.classes = reduced.classes,
                         !.nmsArgs = nmsArgs]
     IN  \/ \* nonMaxSuppression throws inside tidy: the callback ends here
            /\ backend' = "cpu"
            /\ liveTensors' = liveTensors - 1
            /\ calls' = [calls EXCEPT ![c] =
                 [extracted EXCEPT !.pc = "failed", !.error = "SuppressionError"]]
            /\ UNCHANGED <<fps, lastSuccess>>
         \/ \* nonMaxSuppression returns indexTensor, which is read and disposed
            \E indexes \in nonMaxSuppression(out.numBoxes, scores,
                                             nmsArgs.maxNumBoxes, nmsArgs.scoreThreshold) :
              /\ backend' = prevBackend
              /\ liveTensors' = liveTensors - 1
              /\ fps' = RoundFps(elapsed)
              /\ lastSuccess' = [some |-> TRUE, elapsed |-> elapsed]
              /\ calls' = [calls EXCEPT ![c] =
                   [extracted EXCEPT
                      !.pc = "returned",
                      !.indexes = indexes,
                      !.predictions =
                        buildDetectedObjects(calls[c].input.width, calls[c].input.height,
                                             boxes, scores, indexes, reduced.classes)]]
  /\ UNCHANGED <<model, loadPc, modelParams>>

----------------------------------------------------------------------------
(* The other methods *)

getFPS == fps

getModelParameters == modelParams

setModelParameters(params) ==
  /\ Running
  /\ modelParams' = ObjectAssign(modelParams, params)
  /\ UNCHANGED <<model, loadPc, fps, backend, liveTensors, calls, lastSuccess>>

\* dispose(): this.model.dispose() when this.model is set.
Dispose ==
  /\ Running
  /\ model' = IF model = "undefined" THEN "undefined" ELSE "disposed"
  /\ UNCHANGED <<loadPc, fps, modelParams, backend, liveTensors, calls, lastSuccess>>

----------------------------------------------------------------------------
(* The pipeline specification *)

Next ==
  \/ Load
  \/ LoadAcquired
  \/ LoadWarmedUp
  \/ LoadFailed
  \/ \E c \in CallIds, input \in Frames : Detect(c, input)
  \/ \E c \in CallIds : InferenceRejected(c)
  \/ \E c \in CallIds, out \in SmallOutputs, elapsed \in Elapsed :
       InferenceResolved(c, out, elapsed)
  \/ \E params \in Partials : setModelParameters(params)
  \/ Dispose

Spec == Init /\ [][Next]_vars

----------------------------------------------------------------------------
(* The data-path specification: a loaded pipeline, detect on every inference
   output of up to MaxBoxes boxes, each call taking MaxElapsed milliseconds. *)

InitData == Ready(<<>>)

NextData ==
  \/ \E c \in CallIds, input \in Frames : Detect(c, input)
  \/ \E c \in CallIds, out \in RawOutputs : InferenceResolved(c, out, MaxElapsed)
  \/ \E params \in FlipPartials : setModelParameters(params)

SpecData == InitData /\ [][NextData]_vars

(* The parameter specification: load(params), then setModelParameters. *)

InitParams == \E params \in AllPartials : Constructed(params)

NextParams == \E params \in AllPartials : setModelParameters(params)

SpecParams == InitParams /\ [][NextParams]_vars

(* The resolution specification: a loaded pipeline of any scale factor and
   stride, detect on frames of every size up to MaxDim. *)

InitRes == \E params \in ResParams : Ready(params)

NextRes ==
  \/ \E c \in CallIds, input \in ResFrames : Detect(c, input)
  \/ \E c \in CallIds : InferenceRejected(c)

SpecRes == InitRes /\ [][NextRes]_vars

----------------------------------------------------------------------------
(* Properties *)

\* The state of the pipeline's state machine, from this.model and the
\* position of load().
PipelineState(m, pc) ==
  IF m = "disposed" THEN "Disposed"
  ELSE IF pc = "idle" THEN "Unloaded"
  ELSE IF pc \in {"acquire", "warmup"} THEN "Loading"
  ELSE IF pc = "done" THEN "Ready"
  ELSE "LoadFailed"

Completed(c) == calls[c].pc \in {"returned", "failed"}

\* A call whose then-callback reached the suppression step.
Suppressed(c) ==
  \/ calls[c].pc = "returned"
  \/ calls[c].pc = "failed" /\ calls[c].error = "SuppressionError"

\* C1: a detect call issued while the pipeline is not Ready (Unloaded,
\* Loading or Disposed) fails with InvalidStateError: it is never suspended
\* at the inference boundary, never returns predictions and never fails with
\* another error.
C1_DetectOutsideReadyIsInvalidState ==
  \A c \in CallIds :
    (calls[c].pc # "idle"
       /\ PipelineState(calls[c].issuedModel, calls[c].issuedLoadPc) # "Ready")
    => (calls[c].pc = "failed" /\ calls[c].error = "InvalidStateError")

\* The maximum of scores[k*numClasses + j] over j, and the lowest class
\* index attaining it.
BoxScores(out, k) == {At(out.scores, k * out.numClasses + j) : j \in 0..(out.numClasses - 1)}
MaxScore(out, k) == CHOOSE m \in BoxScores(out, k) : \A x \in BoxScores(out, k) : x <= m
BestClass(out, k) ==
  CHOOSE j \in 0..(out.numClasses - 1) :
    /\ At(out.scores, k * out.numClasses + j) = MaxScore(out, k)
    /\ \A i \in 0..(j - 1) : At(out.scores, k * out.numClasses + i) # MaxScore(out, k)

\* C2: every Detection that detect returns for a selected box k has the
\* best-scoring class of box k as its class and that class's score, the
\* maximum of scores[k*numClasses + j] over j, as its score.
C2_DetectionHasBestClassAndItsScore ==
  \A c \in CallIds :
    calls[c].pc = "returned" =>
      \A i \in DOMAIN calls[c].predictions :
        /\ calls[c].predictions[i].class = BestClass(calls[c].output, calls[c].indexes[i])
        /\ calls[c].predictions[i].score = MaxScore(calls[c].output, calls[c].indexes[i])

\* C3: a detect call uses, for every option, the value that was current when
\* it was issued, whatever setModelParameters does while it is suspended.
C3_InFlightCallUsesIssuedParameters ==
  \A c \in CallIds :
    /\ calls[c].pc # "idle" =>
         /\ calls[c].flipped = calls[c].issuedParams.flipHorizontal
         /\ calls[c].resizedHeight =
              getValidResolution(calls[c].issuedParams.imageScaleFactor,
                                 calls[c].input.height, calls[c].issuedParams.outputStride)
         /\ calls[c].resizedWidth =
              getValidResolution(calls[c].issuedParams.imageScaleFactor,
                                 calls[c].input.width, calls[c].issuedParams.outputStride)
    /\ Suppressed(c) =>
         /\ calls[c].nmsArgs.maxNumBoxes = calls[c].issuedParams.maxNumBoxes
         /\ calls[c].nmsArgs.iouThreshold = calls[c].issuedParams.iouThreshold
         /\ calls[c].nmsArgs.scoreThreshold = calls[c].issuedParams.scoreThreshold

\* C4: when a detect call has ended, by returning or by failing, every
\* tensor that the call allocated has been released.
C4_CompletedCallHoldsNoTensor ==
  \A c \in CallIds : Completed(c) => calls[c].tensors = {}

\* C5: getFPS returns 0 while no detect call has returned predictions, and
\* round(1000 / elapsedMs) of the last call that did otherwise.
C5_FpsIsZeroOrOfLastSuccess ==
  getFPS = IF lastSuccess.some
           THEN RoundFps(lastSuccess.elapsed)
           ELSE [kind |-> "number", val |-> 0]

\* C6: getModelParameters right after setModelParameters(p) equals p on
\* every key of p and the previous parameters on every other key, and has no
\* other key.
C6_SetParametersMergesExactlyTheGivenKeys ==
  [][\A p \in AllPartials :
       setModelParameters(p) =>
         /\ DOMAIN getModelParameters' = (DOMAIN modelParams) \cup (DOMAIN p)
         /\ \A k \in DOMAIN p : getModelParameters'[k] = p[k]
         /\ \A k \in (DOMAIN modelParams) \ (DOMAIN p) :
              getModelParameters'[k] = modelParams[k]]_vars

\* Reached only through setModelParameters: a key that load(params) with at
\* most MaxPartialKeys keys cannot have set together with the others.
C6_Witness ==
  /\ "extra" \in DOMAIN modelParams
  /\ modelParams.maxNumBoxes # DefaultMaxNumBoxes
  /\ modelParams.flipHorizontal = FALSE
  /\ modelParams.modelType # "MobilenetV2"
  /\ modelParams.outputStride = DefaultOutputStride

\* The x of the box of prediction i of call c, as the claim and as the code
\* have it (in tenths of a pixel: the frame's width is 10 * width tenths).
MinX(c, i) == At(calls[c].output.boxes, calls[c].indexes[i] * 4 + 1)
MaxX(c, i) == At(calls[c].output.boxes, calls[c].indexes[i] * 4 + 3)

\* C7 as stated: with flipHorizontal the returned x is un-mirrored,
\* x = width - maxX*width, and without it x = minX*width.
C7_FlippedCoordinatesAreUnmirrored ==
  \A c \in CallIds :
    calls[c].pc = "returned" =>
      \A i \in DOMAIN calls[c].predictions :
        calls[c].predictions[i].bbox[1] =
          IF calls[c].flipped
          THEN 10 * calls[c].input.width - MaxX(c, i) * calls[c].input.width
          ELSE MinX(c, i) * calls[c].input.width

\* C7 as amended: the input is mirrored exactly when flipHorizontal was set
\* at the call, and for both values the returned x is minX*width, a
\* coordinate of the frame as the network saw it.
C7_CoordinatesAreOfTheInferenceFrame ==
  \A c \in CallIds :
    /\ calls[c].pc # "idle" => calls[c].flipped = calls[c].issuedParams.flipHorizontal
    /\ calls[c].pc = "returned" =>
         \A i \in DOMAIN calls[c].predictions :
           /\ calls[c].predictions[i].bbox[1] = MinX(c, i) * calls[c].input.width
           /\ calls[c].predictions[i].bbox[3] =
                MaxX(c, i) * calls[c].input.width - MinX(c, i) * calls[c].input.width

\* A mirrored call returned a box whose mirrored and unmirrored x differ.
C7_Witness ==
  \E c \in CallIds :
    /\ calls[c].pc = "returned"
    /\ calls[c].flipped
    /\ \E i \in DOMAIN calls[c].predictions :
         MinX(c, i) * calls[c].input.width
           # 10 * calls[c].input.width - MaxX(c, i) * calls[c].input.width

\* C8: for every box i, maxScores[i] is the maximum of the box's scores and
\* bestClass[i] the lowest class index attaining it, a class in
\* [0, numClasses), whatever the score values.
C8_ReduceScoresFindsMaxAndLowestClass ==
  \A c \in CallIds :
    Suppressed(c) =>
      \A k \in 0..(calls[c].output.numBoxes - 1) :
        /\ At(calls[c].maxScores, k) = MaxScore(calls[c].output, k)
        /\ At(calls[c].classes, k) = BestClass(calls[c].output, k)
        /\ At(calls[c].classes, k) \in 0..(calls[c].output.numClasses - 1)

\* A number counted in units of 1/ScaleDen that is an integer congruent to 1
\* modulo stride.
IsOneModStride(n, stride) ==
  /\ n % ScaleDen = 0
  /\ ((n \div ScaleDen) - 1) % stride = 0

\* C9: the resolution that detect computes for each axis is an integer
\* congruent to 1 modulo outputStride.
C9_ValidResolutionIsOneModStride ==
  \A c \in CallIds :
    calls[c].pc # "idle" =>
      /\ IsOneModStride(calls[c].resizedHeight, calls[c].issuedParams.outputStride)
      /\ IsOneModStride(calls[c].resizedWidth, calls[c].issuedParams.outputStride)

\* A call whose height times the scale factor is below 1 (e negative) and
\* whose width times the scale factor is above 1 and not an integer, with a
\* stride of at least 2.
C9_Witness ==
  \E c \in CallIds :
    /\ calls[c].pc # "idle"
    /\ calls[c].issuedParams.outputStride >= 2
    /\ calls[c].input.height * calls[c].issuedParams.imageScaleFactor < ScaleDen
    /\ calls[c].input.width * calls[c].issuedParams.imageScaleFactor > ScaleDen
    /\ (calls[c].input.width * calls[c].issuedParams.imageScaleFactor) % ScaleDen # 0

\* C10: when a detect call ends, by returning or by failing, the active
\* backend is the one that was active when its post-processing began.
C10_BackendRestoredWhenCallEnds ==
  [][\A c \in CallIds :
       (calls[c].pc = "suspended" /\ calls'[c].pc \in {"returned", "failed"})
       => backend' = backend]_vars

=============================================================================
